---- MODULE Spec2Model ----
(***************************************************************************)
(* recycle-ecs-instances: the handler that recreates every container       *)
(* instance of an ECS cluster backed by an auto scaling group, together    *)
(* with the remote state it drives (the group, the EC2 instances, the      *)
(* cluster's container instances) and the asynchronous steps of that       *)
(* remote state (launches, registrations, task stops, deregistrations,     *)
(* scale-in).                                                              *)
(***************************************************************************)
EXTENDS Integers, Sequences, FiniteSets

(* ------------------------------ bounds -------------------------------- *)

\* Largest desired capacity / number of registered container instances at start.
MaxNodes == 3
\* Largest running task count of a container instance at start.
MaxTasks == 2

(* ----------------------------- constants ------------------------------ *)

SUSPEND_PROCESSES == {"ReplaceUnhealthy", "AlarmNotification", "ScheduledActions", "AZRebalance"}

\* Values of locals that are not assigned yet.
NoCount == 0 - 1
NoInstance == [containerInstanceArn |-> <<"arn", 0>>, ec2InstanceId |-> 0,
               status |-> "NONE", runningTasksCount |-> NoCount]

VARIABLES
    pc,                          \* position of the handler
    group,                       \* the auto scaling group
    running,                     \* EC2 instance ids that are running
    cluster,                     \* container instance arn -> its description
    nextInstance,                \* id of the next instance the group launches
    asg,                         \* handler local: the group as read
    pre_container_instance_arns, \* handler local: the snapshot
    pre_desired_capacity, new_desired_capacity,
    pre_max_size, new_max_size,
    i,                           \* handler local: the loop counter
    idx,                         \* position of the for loop's iterator
    container_instance_arn,      \* handler local: the loop variable
    container_instance,          \* handler local: the last description read
    active_count,                \* wait_for_ecs_count local: the last count read
    calls,                       \* the remote calls issued so far, in order
    observed,                    \* the task counts the current drain wait has read
    group0                       \* the group as it was before the run

vars == <<pc, group, running, cluster, nextInstance, asg,
          pre_container_instance_arns, pre_desired_capacity,
          new_desired_capacity, pre_max_size, new_max_size, i, idx,
          container_instance_arn, container_instance, active_count,
          calls, observed, group0>>

handlerLocals == <<asg, pre_container_instance_arns, pre_desired_capacity,
                   new_desired_capacity, pre_max_size, new_max_size, i, idx,
                   container_instance_arn, container_instance, active_count>>

remote == <<group, running, cluster, nextInstance>>

(* --------------------------- remote services -------------------------- *)

\* The container instance arn of an EC2 instance, and back.
Arn(inst) == <<"arn", inst>>
Ec2Of(arn) == arn[2]

Min(S) == CHOOSE x \in S : \A y \in S : x <= y

RECURSIVE Ascending(_)
Ascending(S) == IF S = {} THEN <<>> ELSE <<Min(S)>> \o Ascending(S \ {Min(S)})

\* ecs.list_container_instances(cluster)['containerInstanceArns']
ListContainerInstances ==
    LET ids == Ascending({Ec2Of(a) : a \in DOMAIN cluster})
    IN  [k \in 1..Len(ids) |-> Arn(ids[k])]

\* ecs.update_container_instances_state(containerInstances=[arn], status=s)
UpdateContainerInstancesState(arn, s) ==
    IF arn \in DOMAIN cluster
    THEN [cluster EXCEPT ![arn].status = s]
    ELSE cluster

\* autoscaling.update_auto_scaling_group(MaxSize, DesiredCapacity)
UpdateAutoScalingGroup(maxSize, desiredCapacity) ==
    [group EXCEPT !.MaxSize = maxSize, !.DesiredCapacity = desiredCapacity]

\* autoscaling.terminate_instance_in_auto_scaling_group(InstanceId, ShouldDecrementDesiredCapacity)
TerminateInstanceInAutoScalingGroup(instanceId, shouldDecrement) ==
    [group EXCEPT !.Instances = @ \ {instanceId},
                  !.DesiredCapacity = IF shouldDecrement THEN @ - 1 ELSE @]

Range(s) == {s[k] : k \in 1..Len(s)}

(* -------------------------------- Init -------------------------------- *)

Init ==
    /\ pc = "suspend"
    /\ \E d \in 0..MaxNodes : \E m \in d..MaxNodes :
       \E s \in {{}, {"AZRebalance"}} :
          /\ group = [DesiredCapacity |-> d, MaxSize |-> m,
                      Instances |-> 1..d, Suspended |-> s]
          /\ group0 = group
          /\ \E n \in 0..MaxNodes :
               /\ running = 1..(IF n > d THEN n ELSE d)
               /\ nextInstance = (IF n > d THEN n ELSE d) + 1
               /\ \E t \in [1..n -> {0, MaxTasks}] :
                    cluster = [a \in {Arn(k) : k \in 1..n} |->
                                 [containerInstanceArn |-> a,
                                  ec2InstanceId |-> Ec2Of(a),
                                  status |-> "ACTIVE",
                                  runningTasksCount |-> t[Ec2Of(a)]]]
    /\ asg = [DesiredCapacity |-> NoCount, MaxSize |-> NoCount]
    /\ pre_container_instance_arns = <<>>
    /\ pre_desired_capacity = NoCount
    /\ new_desired_capacity = NoCount
    /\ pre_max_size = NoCount
    /\ new_max_size = NoCount
    /\ i = 0
    /\ idx = 0
    /\ container_instance_arn = Arn(0)
    /\ container_instance = NoInstance
    /\ active_count = NoCount
    /\ calls = <<>>
    /\ observed = {}

(* ------------------------------ handler ------------------------------- *)

\* autoscaling.suspend_processes(ScalingProcesses=SUSPEND_PROCESSES)
SuspendProcesses ==
    /\ pc = "suspend"
    /\ group' = [group EXCEPT !.Suspended = @ \cup SUSPEND_PROCESSES]
    /\ calls' = Append(calls, [op |-> "suspendBehaviors", procs |-> SUSPEND_PROCESSES])
    /\ pc' = "get_asg"
    /\ UNCHANGED <<running, cluster, nextInstance, handlerLocals, observed, group0>>

\* asg = get_asg(ASG_NAME)
GetAsg ==
    /\ pc = "get_asg"
    /\ asg' = [DesiredCapacity |-> group.DesiredCapacity, MaxSize |-> group.MaxSize]
    /\ calls' = Append(calls, [op |-> "readSettings"])
    /\ pc' = "list"
    /\ UNCHANGED <<remote, pre_container_instance_arns, pre_desired_capacity,
                   new_desired_capacity, pre_max_size, new_max_size, i, idx,
                   container_instance_arn, container_instance, active_count, observed, group0>>

\* pre_container_instance_arns = ecs.list_container_instances(...)
Snapshot ==
    /\ pc = "list"
    /\ pre_container_instance_arns' = ListContainerInstances
    /\ calls' = Append(calls, [op |-> "listActiveNodes",
                               result |-> pre_container_instance_arns'])
    /\ pc' = "scale_up"
    /\ UNCHANGED <<remote, asg, pre_desired_capacity,
                   new_desired_capacity, pre_max_size, new_max_size, i, idx,
                   container_instance_arn, container_instance, active_count, observed, group0>>

\* Mutant: the group is scaled up by two.
NewDesiredCapacityByTwo(desired) == desired + 2

\* new_desired_capacity = pre_desired_capacity + 1
NewDesiredCapacity(desired) == desired + 1

\* Mutant: the max size is never raised.
NewMaxSizeKept(maxSize, newDesired) == maxSize

\* Mutant: the max size is always set to the new desired capacity.
NewMaxSizeAlways(maxSize, newDesired) == newDesired

\* new_max_size = pre_max_size, raised to new_desired_capacity when that is larger
NewMaxSize(maxSize, newDesired) == IF newDesired > maxSize THEN newDesired ELSE maxSize

\* The scale-up: the four locals are computed and the group is updated.
ScaleUp ==
    /\ pc = "scale_up"
    /\ pre_desired_capacity' = asg.DesiredCapacity
    /\ new_desired_capacity' = NewDesiredCapacity(asg.DesiredCapacity)
    /\ pre_max_size' = asg.MaxSize
    /\ new_max_size' = NewMaxSize(asg.MaxSize, new_desired_capacity')
    /\ calls' = Append(calls, [op |-> "setCapacity",
                               desired |-> new_desired_capacity',
                               max |-> new_max_size'])
    /\ IF new_desired_capacity' <= new_max_size'
       THEN /\ group' = UpdateAutoScalingGroup(new_max_size', new_desired_capacity')
            /\ pc' = "loop"
       ELSE /\ group' = group
            /\ pc' = "aborted"
    /\ UNCHANGED <<running, cluster, nextInstance, asg, pre_container_instance_arns,
                   i, idx, container_instance_arn, container_instance,
                   active_count, observed, group0>>

\* for container_instance_arn in pre_container_instance_arns: i += 1
LoopTop ==
    /\ pc = "loop"
    /\ IF idx < Len(pre_container_instance_arns)
       THEN /\ idx' = idx + 1
            /\ container_instance_arn' = pre_container_instance_arns[idx + 1]
            /\ i' = i + 1
            /\ active_count' = NoCount
            /\ pc' = "wait"
       ELSE /\ pc' = "cleanup"
            /\ UNCHANGED <<idx, container_instance_arn, i, active_count>>
    /\ UNCHANGED <<remote, asg, pre_container_instance_arns, pre_desired_capacity,
                   new_desired_capacity, pre_max_size, new_max_size,
                   container_instance, calls, observed, group0>>

\* The count wait_for_ecs_count reads: every listed container instance.
ActiveCount == Cardinality(DOMAIN cluster)

\* Mutant: the gate opens one instance early.
EnoughInstancesOneShort(count, wanted) == count >= wanted - 1

\* Mutant: the gate asks for one instance more than wanted.
EnoughInstancesStrict(count, wanted) == count > wanted

\* if active_count >= wanted_count: break
EnoughInstances(count, wanted) == count >= wanted

\* One poll of wait_for_ecs_count(new_desired_capacity, ...)
WaitForEcsCount ==
    /\ pc = "wait"
    /\ active_count' = ActiveCount
    /\ pc' = IF EnoughInstances(active_count', new_desired_capacity) THEN "drain" ELSE "wait"
    /\ UNCHANGED <<remote, asg, pre_container_instance_arns, pre_desired_capacity,
                   new_desired_capacity, pre_max_size, new_max_size, i, idx,
                   container_instance_arn, container_instance, calls, observed, group0>>

\* Mutant: the drain request always names the first node of the snapshot.
DrainTargetFirst == pre_container_instance_arns[1]

\* Mutant: the drain request names the node at the loop's position in a fresh listing.
DrainTargetLive ==
    IF idx <= Len(ListContainerInstances)
    THEN ListContainerInstances[idx]
    ELSE container_instance_arn

\* The node the drain request names.
DrainTarget == container_instance_arn

\* ecs.update_container_instances_state(..., status='DRAINING')
Drain ==
    /\ pc = "drain"
    /\ cluster' = UpdateContainerInstancesState(DrainTarget, "DRAINING")
    /\ calls' = Append(calls, [op |-> "beginDrain", arn |-> DrainTarget])
    /\ observed' = {}
    /\ pc' = "describe"
    /\ UNCHANGED <<group, running, nextInstance, handlerLocals, group0>>

\* Mutant: the drain wait gives up after one poll.
DrainedAfterOnePoll(description) == TRUE

\* Mutant: the drain wait ends with one task still running.
DrainedAlmost(description) == description.runningTasksCount <= 1

\* if container_instance['runningTasksCount'] == 0: break
Drained(description) == description.runningTasksCount = 0

\* One poll of the drain wait: describe_container_instances(...)['containerInstances'][0]
DescribeContainerInstance ==
    /\ pc = "describe"
    /\ IF container_instance_arn \in DOMAIN cluster
       THEN /\ container_instance' = cluster[container_instance_arn]
            /\ observed' = observed \cup {container_instance'.runningTasksCount}
            /\ pc' = IF Drained(container_instance') THEN "check" ELSE "describe"
       ELSE /\ container_instance' = container_instance
            /\ observed' = observed
            /\ pc' = "aborted"
    /\ UNCHANGED <<remote, asg, pre_container_instance_arns, pre_desired_capacity,
                   new_desired_capacity, pre_max_size, new_max_size, i, idx,
                   container_instance_arn, active_count, calls, group0>>

\* Mutant: the loop stops one node late.
IsFinalExtraStrict(count, desired) == count > desired

\* if i >= pre_desired_capacity: break
IsFinalExtra(count, desired) == count >= desired

CheckFinal ==
    /\ pc = "check"
    /\ pc' = IF IsFinalExtra(i, pre_desired_capacity) THEN "cleanup" ELSE "terminate"
    /\ UNCHANGED <<remote, handlerLocals, calls, observed, group0>>

\* Mutant: the terminate request lets the group decrement its desired capacity.
ShouldDecrementTrue == TRUE

\* ShouldDecrementDesiredCapacity=False
ShouldDecrementDesiredCapacity == FALSE

\* Mutant: the terminate request always names the first node's instance.
TerminateTargetFirst == Ec2Of(pre_container_instance_arns[1])

\* InstanceId=container_instance['ec2InstanceId']
TerminateTarget == container_instance.ec2InstanceId

\* autoscaling.terminate_instance_in_auto_scaling_group(...)
Terminate ==
    /\ pc = "terminate"
    /\ group' = TerminateInstanceInAutoScalingGroup(TerminateTarget,
                                                    ShouldDecrementDesiredCapacity)
    /\ running' = running \ {TerminateTarget}
    /\ calls' = Append(calls, [op |-> "terminateNode", inst |-> TerminateTarget,
                               dec |-> ShouldDecrementDesiredCapacity])
    /\ pc' = "loop"
    /\ UNCHANGED <<cluster, nextInstance, handlerLocals, observed, group0>>

\* Mutant: resume_processes without ScalingProcesses resumes every process.
ResumeEveryProcess(suspended) == {}

\* autoscaling.resume_processes(ScalingProcesses=SUSPEND_PROCESSES): what stays suspended
ResumeProcesses(suspended) == suspended \ SUSPEND_PROCESSES

\* cleanup: autoscaling.resume_processes(ScalingProcesses=SUSPEND_PROCESSES)
CleanupResume ==
    /\ pc = "cleanup"
    /\ group' = [group EXCEPT !.Suspended = ResumeProcesses(@)]
    /\ calls' = Append(calls, [op |-> "resumeBehaviors", procs |-> SUSPEND_PROCESSES])
    /\ pc' = "cleanup_update"
    /\ UNCHANGED <<running, cluster, nextInstance, handlerLocals, observed, group0>>

\* Mutant: the cleanup is handed the raised max size.
CleanupArgsRaisedMax == [desired_capacity |-> pre_desired_capacity, max_size |-> new_max_size]

\* cleanup(ASG_NAME, pre_desired_capacity, pre_max_size): the arguments
CleanupArgs == [desired_capacity |-> pre_desired_capacity, max_size |-> pre_max_size]

\* cleanup: autoscaling.update_auto_scaling_group(MaxSize=max_size, DesiredCapacity=desired_capacity)
CleanupUpdate ==
    /\ pc = "cleanup_update"
    /\ calls' = Append(calls, [op |-> "setCapacity",
                               desired |-> CleanupArgs.desired_capacity,
                               max |-> CleanupArgs.max_size])
    /\ IF CleanupArgs.desired_capacity <= CleanupArgs.max_size
       THEN /\ group' = UpdateAutoScalingGroup(CleanupArgs.max_size,
                                               CleanupArgs.desired_capacity)
            /\ pc' = "done"
       ELSE /\ group' = group
            /\ pc' = "aborted"
    /\ UNCHANGED <<running, cluster, nextInstance, handlerLocals, observed, group0>>

\* Positions at which the handler is about to make a remote call.
RemoteCallPcs == {"suspend", "get_asg", "list", "scale_up", "wait", "drain",
                  "describe", "terminate", "cleanup", "cleanup_update"}

\* Mutant: the failed call is tried again.
RetryAfterException(at) == at

\* Where the handler is after the call at position `at` raised: nothing catches
\* the exception, so the run is over.
AfterException(at) == "aborted"

\* A remote call raises: nothing catches it, the run ends there.
RemoteCallFails ==
    /\ pc \in RemoteCallPcs
    /\ pc' = AfterException(pc)
    /\ calls' = Append(calls, [op |-> "failed", at |-> pc])
    /\ UNCHANGED <<remote, handlerLocals, observed, group0>>

(* --------------------- the remote state's own steps ------------------- *)

\* The group launches an instance while it holds fewer than it desires.
Launch ==
    /\ Cardinality(group.Instances) < group.DesiredCapacity
    /\ group' = [group EXCEPT !.Instances = @ \cup {nextInstance}]
    /\ running' = running \cup {nextInstance}
    /\ nextInstance' = nextInstance + 1
    /\ UNCHANGED <<pc, cluster, handlerLocals, calls, observed, group0>>

\* A running instance that is not listed yet registers with the cluster.
Join ==
    /\ \E inst \in running :
         /\ Arn(inst) \notin DOMAIN cluster
         /\ cluster' = [a \in DOMAIN cluster \cup {Arn(inst)} |->
                          IF a = Arn(inst)
                          THEN [containerInstanceArn |-> a, ec2InstanceId |-> inst,
                                status |-> "ACTIVE", runningTasksCount |-> 0]
                          ELSE cluster[a]]
    /\ UNCHANGED <<pc, group, running, nextInstance, handlerLocals, calls, observed, group0>>

\* A task of a draining container instance stops.
TaskStops ==
    /\ \E a \in DOMAIN cluster :
         /\ cluster[a].status = "DRAINING"
         /\ cluster[a].runningTasksCount > 0
         /\ cluster' = [cluster EXCEPT ![a].runningTasksCount = @ - 1]
    /\ UNCHANGED <<pc, group, running, nextInstance, handlerLocals, calls, observed, group0>>

\* A terminated instance is removed from the cluster's listing.
Deregister ==
    /\ \E a \in DOMAIN cluster :
         /\ Ec2Of(a) \notin running
         /\ cluster' = [b \in DOMAIN cluster \ {a} |-> cluster[b]]
    /\ UNCHANGED <<pc, group, running, nextInstance, handlerLocals, calls, observed, group0>>

\* The group terminates an instance of its choice while it holds more than it desires.
ScaleIn ==
    /\ Cardinality(group.Instances) > group.DesiredCapacity
    /\ \E inst \in group.Instances :
         /\ group' = [group EXCEPT !.Instances = @ \ {inst}]
         /\ running' = running \ {inst}
    /\ UNCHANGED <<pc, cluster, nextInstance, handlerLocals, calls, observed, group0>>

Next ==
    \/ SuspendProcesses
    \/ GetAsg
    \/ Snapshot
    \/ ScaleUp
    \/ LoopTop
    \/ WaitForEcsCount
    \/ Drain
    \/ DescribeContainerInstance
    \/ CheckFinal
    \/ Terminate
    \/ CleanupResume
    \/ CleanupUpdate
    \/ RemoteCallFails
    \/ Launch
    \/ Join
    \/ TaskStops
    \/ Deregister
    \/ ScaleIn

Spec == Init /\ [][Next]_vars

\* The steps of the handler when no remote call raises.
HandlerStep ==
    \/ SuspendProcesses
    \/ GetAsg
    \/ Snapshot
    \/ ScaleUp
    \/ LoopTop
    \/ WaitForEcsCount
    \/ Drain
    \/ DescribeContainerInstance
    \/ CheckFinal
    \/ Terminate
    \/ CleanupResume
    \/ CleanupUpdate

NextNoFailure ==
    \/ HandlerStep
    \/ Launch
    \/ Join
    \/ TaskStops
    \/ Deregister
    \/ ScaleIn

\* No remote call raises.
SpecNoFailure == Init /\ [][NextNoFailure]_vars

\* No remote call raises, the handler keeps running, the group launches what it
\* desires, launched instances join and tasks of draining instances stop.
SpecLive ==
    /\ Init
    /\ [][NextNoFailure]_vars
    /\ WF_vars(HandlerStep)
    /\ WF_vars(Launch)
    /\ WF_vars(Join)
    /\ WF_vars(TaskStops)

(* ------------------------- reading the call log ----------------------- *)

CallsOf(o) == {k \in 1..Len(calls) : calls[k].op = o}
Called(o) == CallsOf(o) # {}
LastCall(o) == calls[CHOOSE k \in CallsOf(o) : \A j \in CallsOf(o) : j <= k]

\* Position of a container instance in the snapshot (0 when it is not in it).
SnapshotIndex(arn) ==
    IF arn \in Range(pre_container_instance_arns)
    THEN CHOOSE k \in 1..Len(pre_container_instance_arns) :
            pre_container_instance_arns[k] = arn
    ELSE 0

\* The container instances that are running and not draining.
ActiveNodes ==
    {a \in DOMAIN cluster : cluster[a].status = "ACTIVE" /\ Ec2Of(a) \in running}

\* Between the scale-up call and the restoring call.
ScaledUp == pc \in {"loop", "wait", "drain", "describe", "check", "terminate",
                    "cleanup", "cleanup_update"}

\* The snapshot held exactly the group's instances, as many as it desired.
StartedAtDesired ==
    /\ Len(pre_container_instance_arns) = pre_desired_capacity
    /\ Range(pre_container_instance_arns) = {Arn(k) : k \in group0.Instances}

(* -------------------------------- claims ------------------------------ *)

\* C1: between the scale-up and the restoring setCapacity call, a cluster that
\* started with originalDesiredCount active nodes always holds at least
\* originalDesiredCount nodes that are running and not DRAINING.
C1_CapacityInvariant ==
    (ScaledUp /\ StartedAtDesired)
        => Cardinality(ActiveNodes) >= pre_desired_capacity

\* C2: in a run that reaches DONE the last setCapacity call carries the desired
\* and max counts read at session start, the behaviors the run suspended have
\* been resumed, and the group ends with the desired/max it started with.
C2_Restoration ==
    pc = "done" =>
        /\ LastCall("setCapacity").desired = asg.DesiredCapacity
        /\ LastCall("setCapacity").max = asg.MaxSize
        /\ asg.DesiredCapacity = group0.DesiredCapacity
        /\ asg.MaxSize = group0.MaxSize
        /\ group.DesiredCapacity = group0.DesiredCapacity
        /\ group.MaxSize = group0.MaxSize
        /\ Called("resumeBehaviors")
        /\ LastCall("resumeBehaviors").procs = LastCall("suspendBehaviors").procs
        /\ group.Suspended \cap LastCall("suspendBehaviors").procs = {}

\* A finished run that raised the max size and terminated a node on the way.
C2_Witness ==
    /\ pc = "done"
    /\ new_max_size > pre_max_size
    /\ Called("terminateNode")

\* C3: once suspendBehaviors has succeeded, every way the run ends has issued
\* resumeBehaviors, and has restored the original desired/max when it raised them.
C3_CleanupOnEveryExit ==
    (pc \in {"done", "aborted"} /\ Called("suspendBehaviors")) =>
        /\ Called("resumeBehaviors")
        /\ group.Suspended \cap SUSPEND_PROCESSES = {}
        /\ group.DesiredCapacity = group0.DesiredCapacity
        /\ group.MaxSize = group0.MaxSize

\* A run that ended at a failed remote call with the group suspended and raised.
C3_AbortedRaised ==
    /\ pc = "aborted"
    /\ group.DesiredCapacity = group0.DesiredCapacity + 1
    /\ SUSPEND_PROCESSES \subseteq group.Suspended

TerminateCount(inst) ==
    Cardinality({k \in CallsOf("terminateNode") : calls[k].inst = inst})

C5_AbsorbingNodeKept ==
    (pre_desired_capacity >= 1 /\ Len(pre_container_instance_arns) >= pre_desired_capacity) =>
        /\ idx <= pre_desired_capacity
        /\ \A k \in CallsOf("terminateNode") :
              SnapshotIndex(Arn(calls[k].inst)) \in 1..(pre_desired_capacity - 1)
        /\ \A k \in CallsOf("beginDrain") :
              SnapshotIndex(calls[k].arn) \in 1..pre_desired_capacity
        /\ pc = "done" =>
              /\ idx = pre_desired_capacity
              /\ \E k \in CallsOf("beginDrain") :
                    calls[k].arn = pre_container_instance_arns[pre_desired_capacity]
              /\ container_instance.containerInstanceArn =
                    pre_container_instance_arns[pre_desired_capacity]
              /\ container_instance.runningTasksCount = 0

\* desired=3 with nodes A,B,C: A and B were terminated, C was only drained.
C5_Witness ==
    /\ pc = "done"
    /\ pre_desired_capacity = 3
    /\ Len(pre_container_instance_arns) = 3
    /\ {calls[k].inst : k \in CallsOf("terminateNode")} = {1, 2}
    /\ cluster[Arn(3)].status = "DRAINING"

IsDrainCall(c) == c.op = "beginDrain"

\* The nodes passed to beginDrain, in call order.
DrainSeq ==
    LET d == SelectSeq(calls, IsDrainCall)
    IN  [k \in 1..Len(d) |-> d[k].arn]

DrainedPrefix ==
    LET stop == IF pre_desired_capacity >= 1 THEN pre_desired_capacity ELSE 1
    IN  IF Len(pre_container_instance_arns) <= stop
        THEN Len(pre_container_instance_arns)
        ELSE stop

ScaleUpCall == calls[CHOOSE k \in CallsOf("setCapacity") :
                        \A j \in CallsOf("setCapacity") : k <= j]

\* C7: the scale-up call carries desired = originalDesiredCount + 1 and
\* max = max(originalMaxCount, originalDesiredCount + 1): the max is raised by
\* one when desired equals max and is unchanged when desired is below max.
C7_MonotonicMax ==
    Called("setCapacity") =>
        /\ ScaleUpCall.desired = group0.DesiredCapacity + 1
        /\ ScaleUpCall.max >= group0.MaxSize
        /\ ScaleUpCall.max >= group0.DesiredCapacity + 1
        /\ ScaleUpCall.max \in {group0.MaxSize, group0.DesiredCapacity + 1}
        /\ group0.DesiredCapacity = group0.MaxSize
              => ScaleUpCall.max = group0.MaxSize + 1
        /\ group0.DesiredCapacity < group0.MaxSize
              => ScaleUpCall.max = group0.MaxSize

\* The scale-up has been applied to a group whose desired count equalled its max.
C7_Witness ==
    /\ pc = "loop"
    /\ group0.DesiredCapacity = group0.MaxSize
    /\ group.MaxSize = group0.MaxSize + 1
    /\ group.DesiredCapacity = group.MaxSize

\* C8: the drain wait is left only at a description of the current node that
\* reports zero running tasks, and every terminateNode call directly follows
\* the beginDrain call of the same node.
C8_DrainWait ==
    /\ pc \in {"check", "terminate"} =>
          /\ container_instance.runningTasksCount = 0
          /\ container_instance.containerInstanceArn = container_instance_arn
          /\ 0 \in observed
          /\ calls[Len(calls)] = [op |-> "beginDrain", arn |-> container_instance_arn]
    /\ \A k \in CallsOf("terminateNode") :
          /\ k > 1
          /\ calls[k - 1] = [op |-> "beginDrain", arn |-> Arn(calls[k].inst)]

\* The wait saw the count fall over three polls and the node is about to be terminated.
C8_Witness ==
    /\ pc = "terminate"
    /\ Cardinality(observed) >= 3

\* C9: the snapshot is the result of the one listing made after
\* suspendBehaviors and before the scale-up call, every node drained or
\* terminated by a call is in it, and a listed node that is not in it is never
\* draining.
C9_FixedOriginalSet ==
    /\ Cardinality(CallsOf("listActiveNodes")) <= 1
    /\ ~Called("listActiveNodes") => pre_container_instance_arns = <<>>
    /\ \A k \in CallsOf("listActiveNodes") :
          /\ calls[k].result = pre_container_instance_arns
          /\ \E j \in CallsOf("suspendBehaviors") : j < k
          /\ \A j \in CallsOf("setCapacity") : k < j
    /\ \A k \in CallsOf("beginDrain") :
          calls[k].arn \in Range(pre_container_instance_arns)
    /\ \A k \in CallsOf("terminateNode") :
          Arn(calls[k].inst) \in Range(pre_container_instance_arns)
    /\ Called("listActiveNodes") =>
          \A a \in DOMAIN cluster \ Range(pre_container_instance_arns) :
              cluster[a].status = "ACTIVE"

\* A node joined after the snapshot and the run went on to drain and terminate.
C9_Witness ==
    /\ Called("terminateNode")
    /\ pc = "describe"
    /\ \E a \in DOMAIN cluster : a \notin Range(pre_container_instance_arns)

\* C10: a run whose snapshot is empty issues suspendBehaviors, the reads, the
\* scale-up setCapacity and then the cleanup calls, with no capacity poll, no
\* beginDrain and no terminateNode.
C10_EmptyCluster ==
    (Called("setCapacity") /\ pre_container_instance_arns = <<>>) =>
        /\ pc \in {"loop", "cleanup", "cleanup_update", "done", "aborted"}
        /\ SubSeq(calls, 1, 4) =
              << [op |-> "suspendBehaviors", procs |-> SUSPEND_PROCESSES],
                 [op |-> "readSettings"],
                 [op |-> "listActiveNodes", result |-> <<>>],
                 [op |-> "setCapacity",
                  desired |-> group0.DesiredCapacity + 1,
                  max |-> IF group0.MaxSize > group0.DesiredCapacity
                          THEN group0.MaxSize
                          ELSE group0.DesiredCapacity + 1] >>
        /\ active_count = NoCount
        /\ container_instance = NoInstance
        /\ i = 0
        /\ ~Called("beginDrain")
        /\ ~Called("terminateNode")
        /\ pc = "done" =>
              /\ Len(calls) = 6
              /\ calls[5] = [op |-> "resumeBehaviors", procs |-> SUSPEND_PROCESSES]
              /\ calls[6] = [op |-> "setCapacity",
                             desired |-> group0.DesiredCapacity,
                             max |-> group0.MaxSize]

\* A finished run on a group with desiredCount = 0 and no nodes.
C10_Witness ==
    /\ pc = "done"
    /\ pre_container_instance_arns = <<>>
    /\ group0.DesiredCapacity = 0
    /\ group.DesiredCapacity = 0

\* C11: the configured behaviors stay suspended from the scale-up call until
\* the restoring setCapacity call has been applied, and every setCapacity and
\* terminateNode call is issued after suspendBehaviors and before any
\* resumeBehaviors.
C11_SuspendedThroughout ==
    /\ ScaledUp => SUSPEND_PROCESSES \subseteq group.Suspended
    /\ \A k \in CallsOf("setCapacity") \cup CallsOf("terminateNode") :
          /\ \E j \in CallsOf("suspendBehaviors") : j < k
          /\ \A j \in CallsOf("resumeBehaviors") : k < j

\* The instances the group launched during the run.
Launched == (1..(nextInstance - 1)) \ (group0.Instances \cup {Ec2Of(a) : a \in Range(pre_container_instance_arns)})

\* C12: once the run is done and the group holds no more instances than it
\* desires again, no node of the snapshot is still running and every instance
\* launched during the run still is.
C12_AbsorbingNodeScaledIn ==
    (/\ pc = "done"
     /\ StartedAtDesired
     /\ pre_desired_capacity >= 1
     /\ Cardinality(group.Instances) <= group.DesiredCapacity) =>
        /\ \A a \in Range(pre_container_instance_arns) : Ec2Of(a) \notin running
        /\ Launched \subseteq running

\* The nodes passed to beginDrain whose instance no terminateNode call names.
DrainedNotTerminated ==
    {calls[k].arn : k \in CallsOf("beginDrain")}
        \ {Arn(calls[k].inst) : k \in CallsOf("terminateNode")}

\* C13: beginDrain is issued only behind a count read in the same iteration
\* that is at least originalDesiredCount + 1, between two beginDrain calls lies
\* the terminateNode call of the earlier node, and at most one node has been put
\* into DRAINING without a terminateNode request.
C13_OneAtATime ==
    /\ pc \in {"drain", "describe", "check", "terminate"} =>
          active_count >= group0.DesiredCapacity + 1
    /\ \A j, k \in CallsOf("beginDrain") :
          j < k => \E t \in CallsOf("terminateNode") :
                      /\ j < t
                      /\ t < k
                      /\ calls[t].inst = Ec2Of(calls[j].arn)
    /\ Cardinality(DrainedNotTerminated) <= 1

\* The second node is about to be drained, behind a count of exactly desired + 1.
C13_Witness ==
    /\ pc = "drain"
    /\ Called("terminateNode")
    /\ active_count = group0.DesiredCapacity + 1

\* C14: between the scale-up call and the restoring call the group's desired
\* count is originalDesiredCount + 1 and its max is the one the scale-up wrote;
\* no terminateNode call lets the group decrement.
C14_ExactlyOneExtra ==
    /\ ScaledUp =>
          /\ group.DesiredCapacity = group0.DesiredCapacity + 1
          /\ group.MaxSize = ScaleUpCall.max
    /\ \A k \in CallsOf("terminateNode") : calls[k].dec = FALSE

\* A node has been terminated and the loop goes on at the raised capacity.
C14_Witness ==
    /\ pc = "wait"
    /\ Called("terminateNode")
    /\ group.DesiredCapacity = group0.DesiredCapacity + 1

\* C15: every setCapacity call of the run has desired <= max, and the run never
\* ends at a setCapacity call that was refused.
C15_CapacityOrdering ==
    /\ \A k \in CallsOf("setCapacity") : calls[k].desired <= calls[k].max
    /\ pc = "aborted" => calls[Len(calls)].op = "failed"

\* Both setCapacity calls were issued for a group whose desired count equalled its max.
C15_Witness ==
    /\ pc = "done"
    /\ group0.DesiredCapacity = group0.MaxSize
    /\ Cardinality(CallsOf("setCapacity")) = 2

\* C16: after a run that reaches DONE the group's set of suspended behaviors
\* equals the set it had before the run.
C16_SuspensionPreserved ==
    pc = "done" => group.Suspended = group0.Suspended

\* The drain wait is polling a node that still runs tasks.
StuckInDrainWait ==
    /\ pc = "describe"
    /\ cluster[container_instance_arn].runningTasksCount > 0

C18_Termination ==
    <>(/\ pc = "done"
       /\ Called("resumeBehaviors")
       /\ LastCall("setCapacity").desired = group0.DesiredCapacity
       /\ LastCall("setCapacity").max = group0.MaxSize)

\* A finished run that waited for a replacement and terminated a node.
C18_Witness ==
    /\ pc = "done"
    /\ Called("terminateNode")
    /\ Launched # {}
    /\ pre_desired_capacity = Len(pre_container_instance_arns)

\* C19: a remote call that raised is the last entry of the call log and the run
\* is over: no retry, and no beginDrain, terminateNode or setCapacity after it.
C19_FailStop ==
    /\ \A k \in CallsOf("failed") : k = Len(calls)
    /\ Called("failed") => pc = "aborted"
    /\ pc = "aborted" => Called("failed")

\* The terminate call of the first node raised, after the node had been drained.
C19_Witness ==
    /\ pc = "aborted"
    /\ calls[Len(calls)] = [op |-> "failed", at |-> "terminate"]
    /\ Called("beginDrain")
    /\ ~Called("terminateNode")

====
